---- MODULE Spec2Model ----
(***************************************************************************)
(* Forecast service of the household power manager.                        *)
(*                                                                         *)
(* The module models model_service.load_resources_and_predict (artifact    *)
(* loading, three-source merge, tail trimming, the 24-row future frame,    *)
(* feature engineering, the two model invocations, their combination and   *)
(* the archival of the latest live record), page_dashboard's               *)
(* get_billing_status, the lag lookup of page_analysis, and a browser      *)
(* session: app.main with initialize_system, the tutorial's loading page   *)
(* and the BackgroundWorker of page_tutorial.                              *)
(*                                                                         *)
(* Encoding.  A DataFrame is a sequence of rows                            *)
(*   [ts, power, temperature, humidity]                                    *)
(* ordered as the frame is; ts is the DatetimeIndex in minutes, counted    *)
(* from 2025-12-25 00:00.  Loads are naturals and NaN is the sentinel      *)
(* below.  Model outputs and ensemble weights are integers.  The fitted    *)
(* models and scalers are black boxes, pure functions of their input: an   *)
(* output is drawn from a small set the first time an input is seen and    *)
(* remembered for the next time.                                           *)
(***************************************************************************)
EXTENDS Integers, Sequences, FiniteSets, TLC

VARIABLES
    pc,            \* position inside load_resources_and_predict
    now,           \* wall clock, [y, m, d, h]
    resources,     \* the loaded artifact bundle
    hist_df,       \* static CSV frame
    gap_df,        \* cloud gap frame
    live_df,       \* live feed frame (empty when the feed gave None)
    combined_df,   \* merged history
    df_ready,      \* working history (buffered, trimmed)
    full_context,  \* df_ready followed by the future frame
    pred_lgbm,     \* tree model output, one value per future row
    pred_lstm,     \* sequence model output (flattened)
    pred_final,    \* weighted combination
    ret,           \* what the call returns: [none, result_df, combined_df]
    err,           \* the exception caught at the end of the call ("" if none)
    bill,          \* the last get_billing_status call: its arguments and result
    probe,         \* feature-engineering run on a frame and on a variant of it
    disk,          \* the files next to the program: [bundle, csv]
    feed,          \* what the live endpoint serves, as a cleaned frame
    basket,        \* the history pantry: basket name -> list of records
    oracle,        \* outputs the fitted models have given so far, per input
    other,         \* the local variables of a second, suspended invocation
    analysis,      \* the lag lookup of the analysis page
    session        \* a browser session: session state, script run, worker

vars == <<pc, now, resources, hist_df, gap_df, live_df, combined_df, df_ready,
          full_context, pred_lgbm, pred_lstm, pred_final, ret, err, bill, probe,
          disk, feed, basket, oracle, other, analysis, session>>

----------------------------------------------------------------------------
(* Program constants *)

LOOKBACK_HOURS == 168

buffer_size == 2000

MAX_RECORDS == 2000

\* pd.date_range(start=future_date, periods=96, freq='15T'): the rows of a
\* day and their distance in index units (minutes)
SlotsPerDay == 96

Slot == 15

\* range(24), iloc[-24:], current_idx = -25: the number of future rows
FUTURE_ROWS == 24

\* timedelta(hours=1) in index units (minutes)
Hour == 60

\* np.nan in a load column
NaN == -1

----------------------------------------------------------------------------
(* Bounds of the input sets *)

\* the last rows of the CSV are drawn freely, up to this many
MaxTail == 2

\* model outputs are drawn from -MaxPred .. MaxPred
MaxPred == 1

\* the analysis page's date picker reaches this many days past the history
MaxAhead == 2

----------------------------------------------------------------------------
(* Helpers on sequences *)

Max2(a, b) == IF a >= b THEN a ELSE b

Min2(a, b) == IF a <= b THEN a ELSE b

\* df.iloc[-n:]
ILocTail(df, n) ==
    IF Len(df) <= n THEN df ELSE SubSeq(df, Len(df) - n + 1, Len(df))

\* the timestamps of a frame
Index(df) == { df[i].ts : i \in 1..Len(df) }

\* the largest and the smallest member of a non-empty set of integers
MaxOf(S) == CHOOSE x \in S : \A y \in S : y <= x

MinOf(S) == CHOOSE x \in S : \A y \in S : x <= y

\* calendar arithmetic of datetime and timedelta
IsLeap(y) == (y % 4 = 0 /\ y % 100 # 0) \/ y % 400 = 0

DaysInMonth(y, m) ==
    IF m = 2 THEN (IF IsLeap(y) THEN 29 ELSE 28)
    ELSE IF m \in {4, 6, 9, 11} THEN 30 ELSE 31

\* the calendar instant of an index value; index 0 is 2025-12-25 00:00 and
\* the frames of the model end before February 2026
DateOfTs(ts) ==
    LET days == ts \div (24 * Hour)
        h    == (ts % (24 * Hour)) \div Hour
    IN  IF days < 7 THEN [y |-> 2025, m |-> 12, d |-> 25 + days, h |-> h]
        ELSE [y |-> 2026, m |-> 1, d |-> days - 6, h |-> h]

\* get_basket_name: "2026-q1" is <<2026, 1>>
get_basket_name(dt) == <<dt.y, ((dt.m - 1) \div 3) + 1>>

----------------------------------------------------------------------------
(* The inputs of a call: what the CSV file, the cloud baskets, the live    *)
(* feed and the artifact files may hold.                                   *)

NoFrame == <<>>

\* loads a CSV tail row may hold: missing, zero, or a valid reading
TailVals == {NaN, 0, 2}

\* every sequence over TailVals of length <= MaxTail
Tails == UNION { [1..k -> TailVals] : k \in 0..MaxTail }

\* CSV lengths: an empty file, one row short of the lookback, the lookback,
\* one row more
CsvLens == {0, LOOKBACK_HOURS - 1, LOOKBACK_HOURS, LOOKBACK_HOURS + 1}

\* hist_df after read_csv / set_index / sort_index: n hourly rows from ts 0,
\* the last Len(tail) of them carrying the loads of tail
CsvFrame(n, tail) ==
    LET k == Min2(Len(tail), n)
    IN  [ i \in 1..n |->
            [ ts          |-> (i - 1) * Hour,
              power       |-> IF i > n - k THEN tail[i - (n - k)] ELSE 1 + (i % 3),
              temperature |-> 20 + (i % 5),
              humidity    |-> 60 + (i % 7) ] ]

CsvFrames == { CsvFrame(n, tail) : n \in CsvLens, tail \in Tails }

\* raw items of the live endpoint: a time and a load, no weather column
LiveItems(tss) ==
    [ i \in 1..Len(tss) |-> [ts |-> tss[i], power |-> 3 + i] ]

\* records of a history basket, as the archiver writes them: date and time,
\* load and the weather columns of the live frame they were taken from
BasketItems(tss) ==
    [ i \in 1..Len(tss) |->
        [ ts |-> tss[i], power |-> 3 + i, temperature |-> 25, humidity |-> 70 ] ]

\* the baskets of the history pantry the model's dates fall in
BasketNames == { <<2025, 4>>, <<2026, 1>> }

EmptyPantry == [ b \in BasketNames |-> <<>> ]

\* a pantry that holds each record in the basket of its date
Pantry(items) ==
    [ b \in BasketNames |->
        SelectSeq(items, LAMBDA r : get_basket_name(DateOfTs(r.ts)) = b) ]

\* what the cloud may hold when the CSV ends at ts `last`, as pairs
\* <<pantry, live items>> (a live endpoint without data serves no item):
\* nothing; two hourly basket records, the first one already in the CSV; one
\* hourly live item; basket records and two live items 15 minutes apart
CloudStores(last) ==
    { <<EmptyPantry, <<>>>>,
      <<Pantry(BasketItems(<<last, last + Hour>>)), <<>>>>,
      <<EmptyPantry, LiveItems(<<last + Hour>>)>>,
      <<Pantry(BasketItems(<<last, last + Hour>>)),
        LiveItems(<<last + Hour, last + Hour + 15>>)>> }

\* the columns of the frame add_lgbm_features returns
LgbmColumns ==
    { "power_kW", "temperature", "humidity", "power", "hour", "day_of_week",
      "month", "is_holiday_or_weekend", "is_weekend", "hour_sin", "hour_cos",
      "week_sin", "week_cos", "month_sin", "month_cos", "is_peak", "lag_24h",
      "lag_168h", "lag_720h", "temp_lag_1", "temp_lag_2", "temp_lag_3",
      "ma_7d", "std_7d", "ma_14d", "std_14d", "ma_30d", "std_30d",
      "temp_x_peak", "temp_squared" }

\* feature_name() of a booster: the columns it was trained on.  One booster
\* was trained on the engineered columns, one also on a 48-hour lag.
TrainedColumns == LgbmColumns \ {"power_kW", "power"}

Manifests == { TrainedColumns, TrainedColumns \cup {"lag_48h"} }

NoResources == [ok |-> FALSE]

\* the artifact files: unloadable, or the two ensemble weights, the width of
\* the sequence model's output layer and the booster's column manifest
Bundles ==
    {NoResources} \cup
    [ ok : {TRUE}, w_lgbm : {1, 2}, w_lstm : {1},
      lstm_out : {1, FUTURE_ROWS}, feature_name : Manifests ]

\* the files next to the program
Disks == [ bundle : Bundles, csv : CsvFrames ]

NoDisk == [bundle |-> NoResources, csv |-> NoFrame]

\* wall-clock instants a call may run at
Clock ==
    { [y |-> 2026, m |-> 1, d |-> 15, h |-> 0],
      [y |-> 2026, m |-> 3, d |-> 31, h |-> 10] }

PredVals == (0 - MaxPred) .. MaxPred

\* a model output vector of n values: a level a and an hourly step b
PredVec(n, a, b) == [ i \in 1..n |-> a + b * (i % 2) ]

NoRet == [none |-> TRUE, result_df |-> <<>>, combined_df |-> <<>>]

NoBill == [shown |-> FALSE]

NoProbe == [stage |-> "none"]

\* no model has been asked anything yet
NoOracle == {}

\* no second invocation
NoOther == [pc |-> "absent"]

\* no browser session
NoSession == [pc |-> "absent"]

NoAnalysis == [stage |-> "none"]

----------------------------------------------------------------------------
(* Frame operations of load_resources_and_predict *)

\* ~index.duplicated(keep='last') on rows lo..hi of the concatenation: a row
\* stays unless a later row carries the same timestamp (order kept)
RECURSIVE KeepLastIn(_, _, _)
KeepLastIn(cat, lo, hi) ==
    IF lo > hi THEN <<>>
    ELSE IF lo = hi THEN <<cat[lo]>>
    ELSE LET mid   == (lo + hi) \div 2
             later == KeepLastIn(cat, mid + 1, hi)
             seen  == { later[j].ts : j \in 1..Len(later) }
         IN  SelectSeq(KeepLastIn(cat, lo, mid), LAMBDA r : r.ts \notin seen) \o later

KeepLast(cat) == KeepLastIn(cat, 1, Len(cat))

\* merge of two frames sorted by ts, rows of a before rows of b on a tie
RECURSIVE MergeByTs(_, _)
MergeByTs(a, b) ==
    IF a = <<>> THEN b
    ELSE IF b = <<>> THEN a
    ELSE IF a[Len(a)].ts <= b[1].ts THEN a \o b
    ELSE IF a[Len(a)].ts > b[Len(b)].ts
         THEN Append(MergeByTs(SubSeq(a, 1, Len(a) - 1), b), a[Len(a)])
         ELSE Append(MergeByTs(a, SubSeq(b, 1, Len(b) - 1)), b[Len(b)])

\* df.sort_index() on rows lo..hi
RECURSIVE SortIndexIn(_, _, _)
SortIndexIn(df, lo, hi) ==
    IF lo > hi THEN <<>>
    ELSE IF lo = hi THEN <<df[lo]>>
    ELSE LET mid == (lo + hi) \div 2
         IN  MergeByTs(SortIndexIn(df, lo, mid), SortIndexIn(df, mid + 1, hi))

SortIndex(df) == SortIndexIn(df, 1, Len(df))

\* Combine with the sources concatenated in the opposite order: CSV over gap
\* over live
Combine_KeepFirst(h, g, l) == SortIndex(KeepLast(l \o g \o h))

\* pd.concat of the non-empty sources, duplicates dropped keeping the last,
\* sorted: live over gap over CSV
Combine(h, g, l) == SortIndex(KeepLast(h \o g \o l))

\* Series.last_valid_index(): the position of the last non-NaN load, 0 for None
RECURSIVE LastValidFrom(_, _)
LastValidFrom(df, i) ==
    IF i = 0 THEN 0
    ELSE IF df[i].power # NaN THEN i ELSE LastValidFrom(df, i - 1)

last_valid_index(df) == LastValidFrom(df, Len(df))

\* the tail trimming of the working history
TrimTail(df) ==
    IF df[Len(df)].power = NaN \/ df[Len(df)].power = 0
    THEN LET valid_idx == last_valid_index(df)
         IN  IF valid_idx # 0 THEN SubSeq(df, 1, valid_idx) ELSE df
    ELSE df

\* FutureFrame with the dates counted from last_time itself (i instead of i+1)
FutureFrame_FromLast(df) ==
    LET last == df[Len(df)]
    IN  [ i \in 1..FUTURE_ROWS |->
            [ ts          |-> last.ts + (i - 1) * Hour,
              power       |-> NaN,
              temperature |-> last.temperature,
              humidity    |-> last.humidity ] ]

\* the future frame: FUTURE_ROWS hourly rows after last_time, every column
\* NaN but the weather, which copies the last row of the working history
FutureFrame(df) ==
    LET last == df[Len(df)]
    IN  [ i \in 1..FUTURE_ROWS |->
            [ ts          |-> last.ts + i * Hour,
              power       |-> NaN,
              temperature |-> last.temperature,
              humidity    |-> last.humidity ] ]

\* FullContext with the load column forward-filled after the concatenation
FullContext_Filled(df) ==
    LET cat == df \o FutureFrame(df)
    IN  [ i \in 1..Len(cat) |->
            [ cat[i] EXCEPT !.power =
                LET v == LastValidFrom(cat, i)
                IN  IF v = 0 THEN NaN ELSE cat[v].power ] ]

\* pd.concat([df_ready, future_df])
FullContext(df) == df \o FutureFrame(df)

----------------------------------------------------------------------------
(* The cloud: process_raw_data_to_df, fetch_live_data,                     *)
(* fetch_recent_history_gap, auto_archive_live_data                        *)

\* a load that survives replace(0, np.nan)
Good(v) == v # NaN /\ v # 0

\* replace(0, nan), ffill(), bfill() on the load column
CleanPower(df) ==
    [ i \in 1..Len(df) |->
        LET before == { j \in 1..i : Good(df[j].power) }
            after  == { j \in i..Len(df) : Good(df[j].power) }
        IN  [ df[i] EXCEPT !.power =
                IF before # {} THEN df[MaxOf(before)].power
                ELSE IF after # {} THEN df[MinOf(after)].power
                ELSE NaN ] ]

\* the frame of a list of raw items: indexed and sorted by time, loads
\* cleaned, weather defaulted to 25 / 70 when no item carries a temperature
process_raw_data_to_df(target_list) ==
    IF target_list = <<>> THEN NoFrame
    ELSE LET has_weather == \E i \in 1..Len(target_list) :
                                "temperature" \in DOMAIN target_list[i]
             Row(r) ==
                 [ ts          |-> r.ts,
                   power       |-> r.power,
                   temperature |-> IF ~has_weather THEN 25
                                   ELSE IF "temperature" \in DOMAIN r
                                        THEN r.temperature ELSE NaN,
                   humidity    |-> IF ~has_weather THEN 70
                                   ELSE IF "humidity" \in DOMAIN r
                                        THEN r.humidity ELSE NaN ]
         IN  CleanPower(SortIndex([ i \in 1..Len(target_list) |->
                                      Row(target_list[i]) ]))

\* fetch_live_data: None (here the empty frame) when the endpoint has no data
fetch_live_data(items) == process_raw_data_to_df(items)

\* ~index.duplicated(keep='first') on rows lo..hi
RECURSIVE KeepFirstIn(_, _, _)
KeepFirstIn(cat, lo, hi) ==
    IF lo > hi THEN <<>>
    ELSE IF lo = hi THEN <<cat[lo]>>
    ELSE LET mid     == (lo + hi) \div 2
             earlier == KeepFirstIn(cat, lo, mid)
             seen    == { earlier[j].ts : j \in 1..Len(earlier) }
         IN  earlier \o SelectSeq(KeepFirstIn(cat, mid + 1, hi),
                                  LAMBDA r : r.ts \notin seen)

KeepFirst(cat) == KeepFirstIn(cat, 1, Len(cat))

\* now.replace(day=1) - timedelta(days=1)
LastMonthDate(dt) ==
    IF dt.m = 1 THEN [y |-> dt.y - 1, m |-> 12, d |-> 31, h |-> dt.h]
    ELSE [y |-> dt.y, m |-> dt.m - 1, d |-> DaysInMonth(dt.y, dt.m - 1), h |-> dt.h]

\* sorted(list({prev_basket, current_basket}))
TargetBaskets(dt) ==
    LET current_basket == get_basket_name(dt)
        prev_basket    == get_basket_name(LastMonthDate(dt))
    IN  IF prev_basket = current_basket THEN <<current_basket>>
        ELSE <<prev_basket, current_basket>>

\* fetch_recent_history_gap at wall clock dt: the frames of the previous and
\* of the current quarter's basket, concatenated, sorted, first row kept per
\* timestamp.  A basket that does not answer counts as an empty one.
fetch_recent_history_gap(dt, store) ==
    LET target_baskets == TargetBaskets(dt)
        Frame(i) == IF target_baskets[i] \in DOMAIN store
                    THEN process_raw_data_to_df(store[target_baskets[i]])
                    ELSE NoFrame
        cat == IF Len(target_baskets) = 1 THEN Frame(1) ELSE Frame(1) \o Frame(2)
    IN  KeepFirst(SortIndex(cat))

\* what the pantry may answer to the archiver: GET and POST succeed; the GET
\* answers with another status than 200; a request raises
NetOutcomes == {"ok", "status", "down"}

\* new_data_payload: the latest live row with its date and time
Payload(live) ==
    LET latest_record == live[Len(live)]
    IN  [ ts          |-> latest_record.ts,
          power       |-> latest_record.power,
          temperature |-> latest_record.temperature,
          humidity    |-> latest_record.humidity ]

\* SlidingWindow cutting at the other end: the first MAX_RECORDS records
SlidingWindow_Head(current_history, payload) ==
    LET appended == Append(current_history, payload)
    IN  SubSeq(appended, 1, Min2(Len(appended), MAX_RECORDS))

\* the list auto_archive_live_data sends for basket contents current_history:
\* the payload appended, cut to the last MAX_RECORDS records
SlidingWindow(current_history, payload) ==
    ILocTail(Append(current_history, payload), MAX_RECORDS)

\* the pantry after auto_archive_live_data(live_df) under network outcome net
auto_archive_live_data(live, store, net) ==
    IF live = <<>> \/ net = "down" THEN store
    ELSE LET payload         == Payload(live)
             dynamic_basket  == get_basket_name(DateOfTs(payload.ts))
             current_history == IF net = "ok" THEN store[dynamic_basket] ELSE <<>>
         IN  IF /\ current_history # <<>>
                /\ current_history[Len(current_history)].ts = payload.ts
             THEN store
             ELSE [ store EXCEPT ![dynamic_basket] =
                      SlidingWindow(current_history, payload) ]

----------------------------------------------------------------------------
(* Feature engineering (add_lgbm_features, add_lstm_features)              *)

\* df["power"].shift(k) at position i
ShiftPower(df, i, k) == IF i - k >= 1 THEN df[i - k].power ELSE NaN

\* df["temperature"].shift(k) at position i
ShiftTemp(df, i, k) == IF i - k >= 1 THEN df[i - k].temperature ELSE NaN

\* the positions whose load df["power"].shift(k).rolling(window) reads at i
WindowRows(df, i, k, window) ==
    { j \in Max2(1, i - k - window + 1) .. (i - k) : j <= Len(df) }

\* a load as rolling sums see it: NaN is skipped
Valid(v) == v # NaN

\* sum of the valid loads of rows lo..hi, by halving
RECURSIVE SumPower(_, _, _)
SumPower(df, lo, hi) ==
    IF lo > hi THEN 0
    ELSE IF lo = hi THEN (IF Valid(df[lo].power) THEN df[lo].power ELSE 0)
    ELSE LET mid == (lo + hi) \div 2
         IN  SumPower(df, lo, mid) + SumPower(df, mid + 1, hi)

RECURSIVE SumSqPower(_, _, _)
SumSqPower(df, lo, hi) ==
    IF lo > hi THEN 0
    ELSE IF lo = hi
         THEN (IF Valid(df[lo].power) THEN df[lo].power * df[lo].power ELSE 0)
    ELSE LET mid == (lo + hi) \div 2
         IN  SumSqPower(df, lo, mid) + SumSqPower(df, mid + 1, hi)

CountPower(df, lo, hi) == Cardinality({ j \in lo..hi : Valid(df[j].power) })

\* RollingMean without the shift: the window ends at row i itself
RollingMean_Unshifted(df, i, k, window) ==
    LET lo == Max2(1, i - window + 1)
        hi == Min2(i, Len(df))
        n  == CountPower(df, lo, hi)
    IN  IF n < 1 THEN <<NaN>> ELSE <<SumPower(df, lo, hi), n>>

\* df["power"].shift(k).rolling(window, min_periods=1).mean() at position i,
\* as the exact quotient <<sum, count>> of the non-NaN loads of the window;
\* NaN when the window holds no valid load
RollingMean(df, i, k, window) ==
    LET lo == Max2(1, i - k - window + 1)
        hi == Min2(i - k, Len(df))
        n  == CountPower(df, lo, hi)
    IN  IF n < 1 THEN <<NaN>> ELSE <<SumPower(df, lo, hi), n>>

\* ...rolling(window, min_periods=1).std() at position i: the sample standard
\* deviation, given by <<count, sum, sum of squares>>; NaN below two values
RollingStd(df, i, k, window) ==
    LET lo == Max2(1, i - k - window + 1)
        hi == Min2(i - k, Len(df))
        n  == CountPower(df, lo, hi)
    IN  IF n < 2 THEN <<NaN>>
        ELSE <<n, SumPower(df, lo, hi), SumSqPower(df, lo, hi)>>

\* the lag and rolling columns add_lgbm_features gives row i (the calendar
\* and weather columns read row i alone)
add_lgbm_features(df, i) ==
    [ lag_24h    |-> ShiftPower(df, i, 24),
      lag_168h   |-> ShiftPower(df, i, 168),
      lag_720h   |-> ShiftPower(df, i, 720),
      temp_lag_1 |-> ShiftTemp(df, i, 1),
      temp_lag_2 |-> ShiftTemp(df, i, 2),
      temp_lag_3 |-> ShiftTemp(df, i, 3),
      ma_7d      |-> RollingMean(df, i, 1, 7 * 24),
      std_7d     |-> RollingStd(df, i, 1, 7 * 24),
      ma_14d     |-> RollingMean(df, i, 1, 14 * 24),
      std_14d    |-> RollingStd(df, i, 1, 14 * 24),
      ma_30d     |-> RollingMean(df, i, 1, 30 * 24),
      std_30d    |-> RollingStd(df, i, 1, 30 * 24) ]

\* the lag and rolling columns add_lstm_features gives row i
add_lstm_features(df, i) ==
    [ lag_24h               |-> ShiftPower(df, i, 24),
      lag_168h              |-> ShiftPower(df, i, 168),
      rolling_mean_24h_safe |-> RollingMean(df, i, 24, 24),
      rolling_std_24h_safe  |-> RollingStd(df, i, 24, 24),
      rolling_mean_168h     |-> RollingMean(df, i, 24, 168),
      rolling_std_168h      |-> RollingStd(df, i, 24, 168) ]

\* positions of the future rows in full_context: iloc[-24:]
TargetRows(ctx) == (Len(ctx) - FUTURE_ROWS + 1) .. Len(ctx)

\* SeqRows with current_idx = -24: the window slid one row into the future
SeqRows_Shifted(ctx) ==
    Max2(1, Len(ctx) - FUTURE_ROWS - LOOKBACK_HOURS + 2)
        .. (Len(ctx) - FUTURE_ROWS + 1)

\* seq_data: iloc[current_idx - LOOKBACK_HOURS + 1 : current_idx + 1] with
\* current_idx = -25, the slice start clamped at the first row
SeqRows(ctx) ==
    Max2(1, Len(ctx) - FUTURE_ROWS - LOOKBACK_HOURS + 1) .. (Len(ctx) - FUTURE_ROWS)

\* dir_data: iloc[current_idx + 1 : current_idx + 2]
DirRows(ctx) == { Len(ctx) - FUTURE_ROWS + 1 }

----------------------------------------------------------------------------
(* load_resources_and_predict, step by step *)

\* the values the local variables of a call start from
FreshLocals ==
    [ pc |-> "start", resources |-> NoResources, hist_df |-> NoFrame,
      gap_df |-> NoFrame, live_df |-> NoFrame, combined_df |-> NoFrame,
      df_ready |-> NoFrame, full_context |-> NoFrame, pred_lgbm |-> <<>>,
      pred_lstm |-> <<>>, pred_final |-> <<>>, ret |-> NoRet, err |-> "" ]

\* the local variables of the running invocation
Locals ==
    [ pc |-> pc, resources |-> resources, hist_df |-> hist_df,
      gap_df |-> gap_df, live_df |-> live_df, combined_df |-> combined_df,
      df_ready |-> df_ready, full_context |-> full_context,
      pred_lgbm |-> pred_lgbm, pred_lstm |-> pred_lstm,
      pred_final |-> pred_final, ret |-> ret, err |-> err ]

\* what no step of a call writes: the clock, the files, the live endpoint,
\* the other pages and the second invocation
outside == <<now, disk, feed, bill, probe, analysis, other, session>>

\* the timestamp the CSV of a disk ends at
LastOfCsv(d) == IF d.csv = <<>> THEN 0 ELSE d.csv[Len(d.csv)].ts

Init ==
    /\ pc = "start"
    /\ resources = NoResources
    /\ hist_df = NoFrame
    /\ gap_df = NoFrame
    /\ live_df = NoFrame
    /\ combined_df = NoFrame
    /\ df_ready = NoFrame
    /\ full_context = NoFrame
    /\ pred_lgbm = <<>>
    /\ pred_lstm = <<>>
    /\ pred_final = <<>>
    /\ ret = NoRet
    /\ err = ""
    /\ now \in Clock
    /\ disk \in Disks
    /\ \E c \in CloudStores(LastOfCsv(disk)) :
         /\ basket = c[1]
         /\ feed = c[2]
    /\ oracle = NoOracle
    /\ other = NoOther
    /\ bill = NoBill
    /\ probe = NoProbe
    /\ analysis = NoAnalysis
    /\ session = NoSession

\* the except clause: print the error, return (None, None)
Fail(e) ==
    /\ pc' = "done"
    /\ err' = e
    /\ ret' = NoRet

\* LoadArtifacts with the CSV read before the artifacts are loaded
LoadArtifacts_AfterCsv ==
    /\ pc = "start"
    /\ hist_df' = disk.csv
    /\ IF disk.bundle.ok
       THEN /\ resources' = disk.bundle
            /\ pc' = "loaded"
            /\ UNCHANGED <<ret, err>>
       ELSE /\ resources' = NoResources
            /\ Fail("artifact")
    /\ UNCHANGED <<gap_df, live_df, combined_df, df_ready,
                   full_context, pred_lgbm, pred_lstm, pred_final,
                   basket, oracle, outside>>

\* joblib.load / keras.models.load_model of the six artifact files
LoadArtifacts ==
    /\ pc = "start"
    /\ IF disk.bundle.ok
       THEN /\ resources' = disk.bundle
            /\ pc' = "loaded"
            /\ UNCHANGED <<ret, err>>
       ELSE /\ resources' = NoResources
            /\ Fail("artifact")
    /\ UNCHANGED <<hist_df, gap_df, live_df, combined_df, df_ready,
                   full_context, pred_lgbm, pred_lstm, pred_final,
                   basket, oracle, outside>>

\* read_csv, fetch_recent_history_gap, fetch_live_data
FetchData ==
    /\ pc = "loaded"
    /\ hist_df' = disk.csv
    /\ gap_df' = fetch_recent_history_gap(now, basket)
    /\ live_df' = fetch_live_data(feed)
    /\ pc' = "fetched"
    /\ UNCHANGED <<resources, combined_df, df_ready, full_context,
                   pred_lgbm, pred_lstm, pred_final, ret, err,
                   basket, oracle, outside>>

\* the merge; with no non-empty source the call returns (None, None)
Merge ==
    /\ pc = "fetched"
    /\ IF hist_df = <<>> /\ gap_df = <<>> /\ live_df = <<>>
       THEN /\ pc' = "done"
            /\ ret' = NoRet
            /\ UNCHANGED <<combined_df, err>>
       ELSE /\ combined_df' = Combine(hist_df, gap_df, live_df)
            /\ pc' = "merged"
            /\ UNCHANGED <<ret, err>>
    /\ UNCHANGED <<resources, hist_df, gap_df, live_df, df_ready,
                   full_context, pred_lgbm, pred_lstm, pred_final,
                   basket, oracle, outside>>

\* Prepare with the full context kept in one module-level frame that every
\* invocation of the process reads and writes
Prepare_Shared ==
    /\ pc = "merged"
    /\ df_ready' = TrimTail(ILocTail(combined_df, buffer_size))
    /\ full_context' = FullContext(df_ready')
    /\ other' = IF other.pc = "absent" THEN other
                ELSE [other EXCEPT !.full_context = full_context']
    /\ pc' = "context"
    /\ UNCHANGED <<resources, hist_df, gap_df, live_df, combined_df,
                   pred_lgbm, pred_lstm, pred_final, ret, err,
                   basket, oracle, now, disk, feed, bill, probe, analysis, session>>

\* buffer, trim the tail, build the future frame and the full context
Prepare ==
    /\ pc = "merged"
    /\ df_ready' = TrimTail(ILocTail(combined_df, buffer_size))
    /\ full_context' = FullContext(df_ready')
    /\ pc' = "context"
    /\ UNCHANGED <<resources, hist_df, gap_df, live_df, combined_df,
                   pred_lgbm, pred_lstm, pred_final, ret, err,
                   basket, oracle, outside>>

\* Outputs for a model that is not a function of its input: every call draws
Outputs_Unseeded(model, fresh) == fresh

\* the outputs a fitted model may give for the current input: the one it gave
\* before for this input, any of `fresh` for an input it has not seen
Outputs(model, fresh) ==
    LET known == { e.out : e \in { x \in oracle : /\ x.model = model
                                                  /\ x.res = resources
                                                  /\ x.ctx = full_context } }
    IN  IF known = {} THEN fresh ELSE known

\* the oracle after `model` gave `out` for the current input
Asked(model, out) ==
    oracle \cup { [ model |-> model, res |-> resources,
                    ctx |-> full_context, out |-> out ] }

\* add_lgbm_features, add_lstm_features, the selection of the manifest's
\* columns (KeyError for a column the frame does not have), lgbm.predict
PredictLgbm ==
    /\ pc = "context"
    /\ IF ~(resources.feature_name \subseteq LgbmColumns)
       THEN /\ Fail("KeyError")
            /\ UNCHANGED <<pred_lgbm, oracle>>
       ELSE /\ \E out \in Outputs("lgbm", { PredVec(FUTURE_ROWS, a, 1) :
                                              a \in PredVals }) :
                 /\ pred_lgbm' = out
                 /\ oracle' = Asked("lgbm", out)
            /\ pc' = "lgbm"
            /\ UNCHANGED <<ret, err>>
    /\ UNCHANGED <<resources, hist_df, gap_df, live_df, combined_df,
                   df_ready, full_context, pred_lstm, pred_final,
                   basket, outside>>

\* scaler transforms, reshape(1, LOOKBACK_HOURS, -1), lstm.predict,
\* inverse_transform, flatten.  A sequence window shorter than LOOKBACK_HOURS
\* rows cannot take the shape the network expects: ValueError.
PredictLstm ==
    /\ pc = "lgbm"
    /\ IF Cardinality(SeqRows(full_context)) # LOOKBACK_HOURS
       THEN /\ Fail("ValueError")
            /\ UNCHANGED <<pred_lstm, oracle>>
       ELSE /\ \E out \in Outputs("lstm", { PredVec(resources.lstm_out, a, 0) :
                                              a \in PredVals }) :
                 /\ pred_lstm' = out
                 /\ oracle' = Asked("lstm", out)
            /\ pc' = "lstm"
            /\ UNCHANGED <<ret, err>>
    /\ UNCHANGED <<resources, hist_df, gap_df, live_df, combined_df,
                   df_ready, full_context, pred_lgbm, pred_final,
                   basket, outside>>

\* pred_lgbm * w_lgbm + pred_lstm * w_lstm, numpy broadcasting a length-1
\* sequence output over the future rows
WeightedSum(lg, ls, w) ==
    [ i \in 1..Len(lg) |->
        lg[i] * w.w_lgbm + (IF Len(ls) = 1 THEN ls[1] ELSE ls[i]) * w.w_lstm ]

\* the result frame: one row per future date
ResultFrame(ctx, fin, lg, ls) ==
    [ i \in 1..FUTURE_ROWS |->
        [ ts    |-> ctx[Len(ctx) - FUTURE_ROWS + i].ts,
          final |-> fin[i],
          LGBM  |-> lg[i],
          LSTM  |-> ls[i] ] ]

\* CombineAndReturn with an archiver that lets a failed request raise into
\* the caller's except clause
CombineAndReturn_ArchiveRaises ==
    /\ pc = "lstm"
    /\ pred_final' = WeightedSum(pred_lgbm, pred_lstm, resources)
    /\ IF Len(pred_lstm) # FUTURE_ROWS
       THEN /\ Fail("ValueError")
            /\ UNCHANGED basket
       ELSE \E net \in NetOutcomes :
              IF net = "down" /\ live_df # NoFrame
              THEN /\ Fail("ConnectionError")
                   /\ UNCHANGED basket
              ELSE /\ ret' = [ none        |-> FALSE,
                               result_df   |-> ResultFrame(full_context, pred_final',
                                                           pred_lgbm, pred_lstm),
                               combined_df |-> combined_df ]
                   /\ basket' = auto_archive_live_data(live_df, basket, net)
                   /\ pc' = "done"
                   /\ UNCHANGED err
    /\ UNCHANGED <<resources, hist_df, gap_df, live_df, combined_df,
                   df_ready, full_context, pred_lgbm, pred_lstm,
                   oracle, outside>>

\* combination, result frame (columns of unequal length: ValueError), the
\* archival of the latest live row, return.  auto_archive_live_data catches
\* its own exceptions, so no network outcome changes what is returned.
CombineAndReturn ==
    /\ pc = "lstm"
    /\ pred_final' = WeightedSum(pred_lgbm, pred_lstm, resources)
    /\ IF Len(pred_lstm) # FUTURE_ROWS
       THEN /\ Fail("ValueError")
            /\ UNCHANGED basket
       ELSE /\ ret' = [ none        |-> FALSE,
                        result_df   |-> ResultFrame(full_context, pred_final',
                                                    pred_lgbm, pred_lstm),
                        combined_df |-> combined_df ]
            /\ \E net \in NetOutcomes :
                 basket' = auto_archive_live_data(live_df, basket, net)
            /\ pc' = "done"
            /\ UNCHANGED err
    /\ UNCHANGED <<resources, hist_df, gap_df, live_df, combined_df,
                   df_ready, full_context, pred_lgbm, pred_lstm,
                   oracle, outside>>

Next ==
    \/ LoadArtifacts
    \/ FetchData
    \/ Merge
    \/ Prepare
    \/ PredictLgbm
    \/ PredictLstm
    \/ CombineAndReturn

Spec == Init /\ [][Next]_vars

----------------------------------------------------------------------------
(* Two invocations of load_resources_and_predict in one process: the       *)
(* worker thread of the tutorial page and a second caller.  `other` holds  *)
(* the local variables of the invocation that is not running; a thread     *)
(* switch exchanges them with the running one's.  Files, pantry and live   *)
(* endpoint are the same for both, and the clock moves on between steps.   *)

\* the interpreter passes control to the other thread
Switch ==
    /\ other.pc # "absent"
    /\ other' = Locals
    /\ pc' = other.pc
    /\ resources' = other.resources
    /\ hist_df' = other.hist_df
    /\ gap_df' = other.gap_df
    /\ live_df' = other.live_df
    /\ combined_df' = other.combined_df
    /\ df_ready' = other.df_ready
    /\ full_context' = other.full_context
    /\ pred_lgbm' = other.pred_lgbm
    /\ pred_lstm' = other.pred_lstm
    /\ pred_final' = other.pred_final
    /\ ret' = other.ret
    /\ err' = other.err
    /\ UNCHANGED <<now, disk, feed, basket, oracle, bill, probe, analysis, session>>

\* instant a is later than instant b
Later(a, b) ==
    \/ a.y > b.y
    \/ a.y = b.y /\ a.m > b.m
    \/ a.y = b.y /\ a.m = b.m /\ a.d > b.d
    \/ a.y = b.y /\ a.m = b.m /\ a.d = b.d /\ a.h > b.h

\* time passes: datetime.now() gives a later instant
Tick ==
    /\ \E t \in Clock :
         /\ Later(t, now)
         /\ now' = t
    /\ UNCHANGED <<pc, resources, hist_df, gap_df, live_df, combined_df,
                   df_ready, full_context, pred_lgbm, pred_lstm, pred_final,
                   ret, err, bill, probe, disk, feed, basket, oracle, other,
                   analysis, session>>

\* the files of the two-invocation runs: a full-lookback CSV; artifacts that
\* do not load, or load with either column manifest
ConcurrentDisks ==
    [ bundle : {NoResources} \cup
               [ ok : {TRUE}, w_lgbm : {1}, w_lstm : {1},
                 lstm_out : {FUTURE_ROWS}, feature_name : Manifests ],
      csv    : { CsvFrame(LOOKBACK_HOURS, <<>>) } ]

InitConcurrent ==
    /\ pc = "start"
    /\ resources = NoResources
    /\ hist_df = NoFrame
    /\ gap_df = NoFrame
    /\ live_df = NoFrame
    /\ combined_df = NoFrame
    /\ df_ready = NoFrame
    /\ full_context = NoFrame
    /\ pred_lgbm = <<>>
    /\ pred_lstm = <<>>
    /\ pred_final = <<>>
    /\ ret = NoRet
    /\ err = ""
    /\ now \in { t \in Clock : \E u \in Clock : Later(u, t) }
    /\ disk \in ConcurrentDisks
    /\ \E c \in CloudStores(LastOfCsv(disk)) :
         /\ basket = c[1]
         /\ feed = c[2]
    /\ oracle = NoOracle
    /\ other = FreshLocals
    /\ bill = NoBill
    /\ probe = NoProbe
    /\ analysis = NoAnalysis
    /\ session = NoSession

NextConcurrent ==
    \/ Next
    \/ Switch
    \/ Tick

SpecConcurrent == InitConcurrent /\ [][NextConcurrent]_vars

----------------------------------------------------------------------------
(* page_dashboard.get_billing_status, called with the month's consumption  *)
(* and the sum of the forecast.  Tariffs 3.5 and 5.0 are kept exact by     *)
(* computing in halves; int() truncates.                                   *)

\* consumption and forecast sums a dashboard may pass
KwhVals == {0, 400, 500, 600}

AddVals == {0, 30}

\* dates a dashboard may be rendered on
BillDates ==
    { [y |-> y, m |-> m, d |-> d, h |-> 0] :
        y \in {2025, 2026}, m \in 1..12, d \in {10, 15, 20} }

get_billing_status(current_kwh, predicted_kwh_add) ==
    LET current_bill2 == IF current_kwh <= 500 THEN current_kwh * 7
                         ELSE 500 * 7 + (current_kwh - 500) * 10
        predicted_bill10 ==
            IF predicted_kwh_add > 0
            THEN (current_bill2 + predicted_kwh_add * 30 * 7) * 5
            ELSE current_bill2 * 9
    IN  [ period         |-> [ start |-> [y |-> 2026, m |-> 1, d |-> 1],
                               end   |-> [y |-> 2026, m |-> 3, d |-> 1] ],
          current_bill   |-> current_bill2 \div 2,
          predicted_bill |-> predicted_bill10 \div 10,
          budget         |-> 3000 ]

InitBilling ==
    /\ pc = "dashboard"
    /\ now \in BillDates
    /\ resources = NoResources
    /\ hist_df = NoFrame
    /\ gap_df = NoFrame
    /\ live_df = NoFrame
    /\ combined_df = NoFrame
    /\ df_ready = NoFrame
    /\ full_context = NoFrame
    /\ pred_lgbm = <<>>
    /\ pred_lstm = <<>>
    /\ pred_final = <<>>
    /\ ret = NoRet
    /\ err = ""
    /\ bill = NoBill
    /\ probe = NoProbe
    /\ disk = NoDisk
    /\ feed = <<>>
    /\ basket = EmptyPantry
    /\ oracle = NoOracle
    /\ other = NoOther
    /\ analysis = NoAnalysis
    /\ session = NoSession

\* show_dashboard_page computing the bill status on the date `now`
GetBillingStatus ==
    /\ pc = "dashboard"
    /\ ~bill.shown
    /\ \E current_kwh \in KwhVals, predicted_kwh_add \in AddVals :
         bill' = [ shown  |-> TRUE,
                   args   |-> <<current_kwh, predicted_kwh_add>>,
                   status |-> get_billing_status(current_kwh, predicted_kwh_add) ]
    /\ UNCHANGED <<pc, now, resources, hist_df, gap_df, live_df, combined_df,
                   df_ready, full_context, pred_lgbm, pred_lstm, pred_final,
                   ret, err, probe, disk, feed, basket, oracle, other,
                   analysis, session>>

NextBilling == GetBillingStatus

SpecBilling == InitBilling /\ [][NextBilling]_vars

----------------------------------------------------------------------------
(* Feature engineering applied to a frame and to a variant of it that      *)
(* differs from row t on.                                                  *)

\* loads the variant may carry from row t on
MutVals == {NaN, 0, 9}

\* the frame with the load of every row from t on replaced: v at t, w after
Mutate(df, t, v, w) ==
    [ i \in 1..Len(df) |->
        IF i = t THEN [df[i] EXCEPT !.power = v]
        ELSE IF i > t THEN [df[i] EXCEPT !.power = w]
        ELSE df[i] ]

\* the rolling-statistic columns of row i, of both feature functions
RollingColumns(df, i) ==
    LET g == add_lgbm_features(df, i)
        l == add_lstm_features(df, i)
    IN  << g.ma_7d, g.std_7d, g.ma_14d, g.std_14d, g.ma_30d, g.std_30d,
           l.rolling_mean_24h_safe, l.rolling_std_24h_safe,
           l.rolling_mean_168h, l.rolling_std_168h >>

\* full contexts of a lookback-long history, every CSV tail
FeatureFrames ==
    { df \o FutureFrame(df) : df \in { CsvFrame(LOOKBACK_HOURS, tail) : tail \in Tails } }

\* rows probed: every future row, the last observed rows and early rows
ProbeRows(ctx) ==
    TargetRows(ctx) \cup { 1, 2, FUTURE_ROWS + 1, Len(ctx) - FUTURE_ROWS - 1,
                           Len(ctx) - FUTURE_ROWS }

InitFeatures ==
    /\ pc = "features"
    /\ now \in { [y |-> 2026, m |-> 1, d |-> 15, h |-> 0] }
    /\ resources = NoResources
    /\ hist_df = NoFrame
    /\ gap_df = NoFrame
    /\ live_df = NoFrame
    /\ combined_df = NoFrame
    /\ df_ready = NoFrame
    /\ full_context \in FeatureFrames
    /\ pred_lgbm = <<>>
    /\ pred_lstm = <<>>
    /\ pred_final = <<>>
    /\ ret = NoRet
    /\ err = ""
    /\ bill = NoBill
    /\ probe \in { [stage |-> "in", t |-> t, v |-> v, w |-> w] :
                     t \in ProbeRows(full_context), v \in MutVals, w \in {NaN, 9} }
    /\ disk = NoDisk
    /\ feed = <<>>
    /\ basket = EmptyPantry
    /\ oracle = NoOracle
    /\ other = NoOther
    /\ analysis = NoAnalysis
    /\ session = NoSession

\* add_lgbm_features and add_lstm_features on both frames, read at row t
ComputeFeatures ==
    /\ pc = "features"
    /\ probe.stage = "in"
    /\ probe' = [ stage   |-> "out",
                  t       |-> probe.t,
                  v       |-> probe.v,
                  w       |-> probe.w,
                  base    |-> RollingColumns(full_context, probe.t),
                  variant |-> RollingColumns(
                                  Mutate(full_context, probe.t, probe.v, probe.w),
                                  probe.t) ]
    /\ UNCHANGED <<pc, now, resources, hist_df, gap_df, live_df, combined_df,
                   df_ready, full_context, pred_lgbm, pred_lstm, pred_final,
                   ret, err, bill, disk, feed, basket, oracle, other,
                   analysis, session>>

NextFeatures == ComputeFeatures

SpecFeatures == InitFeatures /\ [][NextFeatures]_vars

----------------------------------------------------------------------------
(* Properties of the forecast call *)

Returned == pc = "done" /\ ~ret.none

\* positions of the valid (non-missing) loads of a frame
ValidRows(df) == { i \in 1..Len(df) : Valid(df[i].power) }

\* rollout steps completed: future rows of the working context whose load
\* holds a value written back after prediction
RolloutSteps == Cardinality({ i \in TargetRows(full_context) :
                                Valid(full_context[i].power) })

\* C1: a rollout steps one hour at a time and is DONE exactly when the number
\* of completed steps (forecast values appended to the working history)
\* equals the horizon; it never finishes with fewer steps.
C1_DoneAtHorizon == Returned => RolloutSteps = Len(ret.result_df)

\* C2: a returned ForecastResult has one entry per hour, contiguous and
\* strictly increasing, starting the hour after the last row of the trimmed
\* working history, with as many entries as the horizon (the 24 future rows).
C2_ResultContiguous ==
    Returned =>
        /\ Len(ret.result_df) = FUTURE_ROWS
        /\ ret.result_df[1].ts = df_ready[Len(df_ready)].ts + Hour
        /\ \A i \in 1..(Len(ret.result_df) - 1) :
             ret.result_df[i + 1].ts = ret.result_df[i].ts + Hour

\* C2 witness: a forecast returned from a working history that was trimmed
C2_Witness == Returned /\ Len(df_ready) < Len(combined_df)

\* C3: every returned forecast point has final_prediction >= 0.
C3_NonNegative ==
    Returned => \A i \in 1..Len(ret.result_df) : ret.result_df[i].final >= 0

\* C4: final = max(0, base + residual), base being the sequence model's
\* prediction and residual the tree model's correction.
C4_ClampedSum ==
    Returned =>
        \A i \in 1..Len(ret.result_df) :
            ret.result_df[i].final
                = Max2(0, ret.result_df[i].LSTM + ret.result_df[i].LGBM)

\* C5: with fewer than LOOKBACK_HOURS valid rows in the working history the
\* call ends in an error and returns no forecast.
C5_InsufficientHistory ==
    (pc = "done" /\ df_ready # NoFrame
        /\ Cardinality(ValidRows(df_ready)) < LOOKBACK_HOURS) => ret.none

\* the bimonthly billing cycle of the specification: {Dec,Jan}, {Feb,Mar}, ...
\* as [start, end] dates, the end at 23:00 of the last day of the second month
BillingCycle(date) ==
    LET first == IF date.m % 2 = 0 THEN date.m
                 ELSE IF date.m = 1 THEN 12 ELSE date.m - 1
        fy    == IF date.m = 1 THEN date.y - 1 ELSE date.y
        last  == IF first = 12 THEN 1 ELSE first + 1
        ly    == IF first = 12 THEN fy + 1 ELSE fy
    IN  [ start |-> [y |-> fy, m |-> first, d |-> 1, h |-> 0],
          end   |-> [y |-> ly, m |-> last, d |-> DaysInMonth(ly, last), h |-> 23] ]

\* hours from an instant to the end of its billing cycle (at most a month on)
HoursToCycleEnd(t) ==
    LET e    == BillingCycle(t).end
        days == IF e.m = t.m THEN e.d - t.d
                ELSE (DaysInMonth(t.y, t.m) - t.d) + e.d
    IN  days * 24 + (e.h - t.h)

\* C7: the number of forecast steps is the number of hours from now to the
\* end of the billing cycle, and at least 24.
C7_BillingHorizon ==
    Returned => Len(ret.result_df) = Max2(24, HoursToCycleEnd(now))

\* C8: every load a lag or rolling feature of a future row reads from an
\* earlier future row is that row's final prediction, not a placeholder.
C8_FeedsForward ==
    Returned =>
        \A i \in TargetRows(full_context) :
            \A j \in (WindowRows(full_context, i, 1, 7 * 24)
                        \cup { i - 24 }) \cap TargetRows(full_context) :
                /\ Valid(full_context[j].power)
                /\ full_context[j].power = pred_final[j - Len(df_ready)]

\* C10: after trimming, the last row of the working history is neither
\* missing nor zero whenever the buffered history holds such a row, and the
\* forecast starts the hour after it.
C10_TrimmedTail ==
    (pc \in {"context", "lgbm", "lstm"} \/ Returned) =>
        LET buffered == ILocTail(combined_df, buffer_size)
            last     == df_ready[Len(df_ready)]
        IN  /\ (\E i \in 1..Len(buffered) :
                    Valid(buffered[i].power) /\ buffered[i].power # 0)
                => (Valid(last.power) /\ last.power # 0)
            /\ full_context[Len(df_ready) + 1].ts = last.ts + Hour

\* the date part of an instant
DateOf(t) == [y |-> t.y, m |-> t.m, d |-> t.d]

\* C6: the billing period reported for a date is the bimonthly cycle that
\* contains it, January paired with the previous December: first day of the
\* first month to last day of the second month.
C6_CycleOfDate ==
    bill.shown =>
        bill.status.period = [ start |-> DateOf(BillingCycle(now).start),
                               end   |-> DateOf(BillingCycle(now).end) ]

\* C9: the rolling statistics of row t are the same on two frames that agree
\* on every row before t, whatever loads the rows from t on carry.
C9_NoLeakage == probe.stage = "out" => probe.base = probe.variant

\* C9 witness: the variant really differs at row t, and row t has a
\* non-empty trailing window
C9_Witness ==
    /\ probe.stage = "out"
    /\ probe.v # full_context[probe.t].power
    /\ probe.base[1] # <<NaN>>
    /\ probe.t \in TargetRows(full_context)

----------------------------------------------------------------------------
(* Properties of the working history and of the merged series *)

\* C11: the working history changes only by rows appended after its last
\* row: once built, df_ready stays as it is, it is the prefix of the full
\* context, every appended row lies after its last row, and the series the
\* call was given (CSV, gap and live frames, the merged history it returns)
\* are not modified.
C11_AppendOnly ==
    [][ /\ (df_ready # NoFrame => df_ready' = df_ready)
        /\ (df_ready' # NoFrame =>
              /\ SubSeq(full_context', 1, Len(df_ready')) = df_ready'
              /\ \A i \in (Len(df_ready') + 1) .. Len(full_context') :
                   full_context'[i].ts > df_ready'[Len(df_ready')].ts)
        /\ (pc # "loaded" => <<hist_df, gap_df, live_df>>' = <<hist_df, gap_df, live_df>>)
        /\ (combined_df # NoFrame => combined_df' = combined_df)
        /\ <<disk, feed>>' = <<disk, feed>> ]_vars

\* C11 witness: a forecast returned from a working history that holds a
\* missing load among its observed rows, the future rows appended
C11_Witness ==
    /\ Returned
    /\ Len(full_context) = Len(df_ready) + FUTURE_ROWS
    /\ \E i \in 1..Len(df_ready) : ~Valid(df_ready[i].power)

\* C12: the series the engine works on has strictly increasing timestamps
\* and one record per hour: no two rows fall in the same hour, sub-hourly
\* source rows having been resampled to hourly means.
C12_HourlySeries ==
    df_ready # NoFrame =>
        \A i \in 1..(Len(df_ready) - 1) :
            /\ df_ready[i].ts < df_ready[i + 1].ts
            /\ df_ready[i].ts \div Hour < df_ready[i + 1].ts \div Hour

----------------------------------------------------------------------------
(* Properties of two invocations *)

\* the suspended invocation has returned a forecast
OtherReturned == other.pc = "done" /\ ~other.ret.none

C14_PrivateState ==
    [][ /\ disk' = disk
        /\ \/ other' = other
           \/ (other' = Locals /\ Locals' = other) ]_vars

\* C14 witness: both invocations are between their first and last step and
\* each holds a full context of its own
C14_Witness ==
    /\ pc \in {"context", "lgbm", "lstm"}
    /\ other.pc \in {"context", "lgbm", "lstm"}
    /\ other.full_context # NoFrame

----------------------------------------------------------------------------
(* Properties of the failure paths *)

\* the columns the booster's manifest names and the feature frame lacks
MissingColumns == IF resources.ok THEN resources.feature_name \ LgbmColumns ELSE {}

\* C15: a manifest column the feature engineer did not produce raises no
\* error: the call goes on past the tree model's column selection (the
\* column zero-filled) and does not end for that reason.
C15_MissingColumnFilled ==
    MissingColumns # {} => err # "KeyError"

\* the kind of failure a call ended with: artifacts that did not load, no
\* data in any source, or a fault raised while computing
FailureKind ==
    IF err = "artifact" THEN "artifacts"
    ELSE IF err = "" THEN "no_data"
    ELSE "internal"

\* C16: what a failed call gives its caller identifies the kind of failure:
\* the bare (None, None) that stands for "no data" is returned for no other
\* kind.
C16_DistinctFailures ==
    (pc = "done" /\ ret = NoRet) => FailureKind = "no_data"

\* C17: a call whose artifacts do not load ends at once: in the step that
\* fails no frame is read or fetched, no context or prediction is built, no
\* model is asked, the pantry is left as it was and nothing is returned.
C17_AbortBeforeWork ==
    [][ err' = "artifact" =>
          /\ pc' = "done"
          /\ ret'.none
          /\ hist_df' = NoFrame /\ gap_df' = NoFrame /\ live_df' = NoFrame
          /\ combined_df' = NoFrame /\ df_ready' = NoFrame
          /\ full_context' = NoFrame
          /\ pred_lgbm' = <<>> /\ pred_lstm' = <<>> /\ pred_final' = <<>>
          /\ oracle' = NoOracle
          /\ basket' = basket ]_vars

\* C17 witness: a call ended by unloadable artifacts while the CSV and the
\* live endpoint had data to read and a record to archive
C17_Witness ==
    /\ pc = "done"
    /\ err = "artifact"
    /\ disk.csv # NoFrame
    /\ feed # <<>>

----------------------------------------------------------------------------
(* Properties of the future rows' weather and of the lag features *)

\* the calendar slot (month, day, hour) of an index value
ClimKey(ts) == LET dt == DateOfTs(ts) IN <<dt.m, dt.d, dt.h>>

\* the rows a climatology table averages for a target timestamp: the rows of
\* its slot, or every row when the history has none in that slot
ClimRows(df, ts) ==
    LET slot == { i \in 1..Len(df) : ClimKey(df[i].ts) = ClimKey(ts) }
    IN  IF slot # {} THEN slot ELSE 1..Len(df)

\* sums of the weather columns over the rows of R among lo..hi, by halving
RECURSIVE SumTemperature(_, _, _, _)
SumTemperature(df, lo, hi, R) ==
    IF lo > hi THEN 0
    ELSE IF lo = hi THEN (IF lo \in R THEN df[lo].temperature ELSE 0)
    ELSE LET mid == (lo + hi) \div 2
         IN  SumTemperature(df, lo, mid, R) + SumTemperature(df, mid + 1, hi, R)

RECURSIVE SumHumidity(_, _, _, _)
SumHumidity(df, lo, hi, R) ==
    IF lo > hi THEN 0
    ELSE IF lo = hi THEN (IF lo \in R THEN df[lo].humidity ELSE 0)
    ELSE LET mid == (lo + hi) \div 2
         IN  SumHumidity(df, lo, mid, R) + SumHumidity(df, mid + 1, hi, R)

\* C18: the temperature and humidity of every future row are the historical
\* means of its (month, day, hour) slot, or the series-wide means when the
\* history has no row in that slot (means compared as exact quotients).
C18_Climatology ==
    full_context # NoFrame =>
        \A j \in TargetRows(full_context) :
            LET R == ClimRows(df_ready, full_context[j].ts)
            IN  /\ full_context[j].temperature * Cardinality(R)
                     = SumTemperature(df_ready, 1, Len(df_ready), R)
                /\ full_context[j].humidity * Cardinality(R)
                     = SumHumidity(df_ready, 1, Len(df_ready), R)

----------------------------------------------------------------------------
(* The prediction tab of page_analysis: the "same time yesterday" lag of   *)
(* the 96 quarter-hours of a chosen day, looked up in the loaded history.  *)
(* A history is a sequence of rows [ts, power_kW], ts in minutes from      *)
(* 00:00 of its first day.                                                 *)

Day == 24 * Hour

\* a loaded history: the quarter-hours first..last of a meter that reports
\* loads of 1..4, the quarter-hour `hole` absent (-1: none absent)
AnalysisHistory(first, last, hole) ==
    SelectSeq([ i \in 1..(last - first + 1) |->
                  [ ts       |-> (first + i - 1) * Slot,
                    power_kW |-> 1 + ((first + i) % 4) ] ],
              LAMBDA r : r.ts # hole * Slot)

\* histories that start at 00:00 or 01:00 of day 0, end with day 1, at noon
\* of day 2 or with day 2, complete or with one quarter-hour of day 0 or of
\* day 1 absent
AnalysisHistories ==
    { AnalysisHistory(first, last, hole) :
        first \in {0, 4},
        last  \in {2 * SlotsPerDay - 1, 2 * SlotsPerDay + 47, 3 * SlotsPerDay - 1},
        hole  \in {-1, 20, SlotsPerDay + 10, SlotsPerDay + 50} }

\* the days the date picker offers: from the day after the first one
FutureDates(history) ==
    LET min_day == history[1].ts \div Day
        max_day == history[Len(history)].ts \div Day
    IN  (min_day + 1) .. (max_day + MaxAhead)

\* future_timestamps - timedelta(days=1)
LagDataTime(future_date) ==
    [ k \in 1..SlotsPerDay |-> future_date * Day + (k - 1) * Slot - Day ]

\* df_future['lag_1_day']: df_history.loc[lag_data_time]['power_kW'], and 0
\* in every row when the lookup raises KeyError for an absent label
LagColumn(history, future_date) ==
    LET lag_data_time == LagDataTime(future_date)
        At(t) == history[CHOOSE i \in 1..Len(history) : history[i].ts = t]
    IN  IF \A k \in 1..SlotsPerDay : lag_data_time[k] \in Index(history)
        THEN [ k \in 1..SlotsPerDay |-> At(lag_data_time[k]).power_kW ]
        ELSE [ k \in 1..SlotsPerDay |-> 0 ]

InitAnalysis ==
    /\ pc = "analysis"
    /\ now \in { [y |-> 2026, m |-> 1, d |-> 15, h |-> 0] }
    /\ resources = NoResources
    /\ hist_df = NoFrame
    /\ gap_df = NoFrame
    /\ live_df = NoFrame
    /\ combined_df = NoFrame
    /\ df_ready = NoFrame
    /\ full_context = NoFrame
    /\ pred_lgbm = <<>>
    /\ pred_lstm = <<>>
    /\ pred_final = <<>>
    /\ ret = NoRet
    /\ err = ""
    /\ bill = NoBill
    /\ probe = NoProbe
    /\ disk = NoDisk
    /\ feed = <<>>
    /\ basket = EmptyPantry
    /\ oracle = NoOracle
    /\ other = NoOther
    /\ session = NoSession
    /\ \E history \in AnalysisHistories :
         analysis \in { [ stage |-> "picked", df_history |-> history,
                          future_date |-> d ] : d \in FutureDates(history) }

\* the button of the prediction tab: the lag column given to model.predict
PredictDay ==
    /\ pc = "analysis"
    /\ analysis.stage = "picked"
    /\ analysis' = [ stage       |-> "predicted",
                     df_history  |-> analysis.df_history,
                     future_date |-> analysis.future_date,
                     lag_1_day   |-> LagColumn(analysis.df_history,
                                               analysis.future_date) ]
    /\ UNCHANGED <<pc, now, resources, hist_df, gap_df, live_df, combined_df,
                   df_ready, full_context, pred_lgbm, pred_lstm, pred_final,
                   ret, err, bill, probe, disk, feed, basket, oracle, other,
                   session>>

NextAnalysis == PredictDay

SpecAnalysis == InitAnalysis /\ [][NextAnalysis]_vars

\* C19: a lag whose lookup target is not in the series is given to the model
\* as missing, not as zero (the meter's loads are 1..4, so a zero in the lag
\* column is a fill for a missing target).
C19_LagMissing ==
    analysis.stage = "predicted" =>
        \A k \in 1..SlotsPerDay :
            LagDataTime(analysis.future_date)[k] \notin Index(analysis.df_history)
                => analysis.lag_1_day[k] # 0

----------------------------------------------------------------------------
(* auto_archive_live_data called on a live frame, against baskets that are *)
(* empty, short, or at the limit of the sliding window.                    *)

\* a basket history of n records, one a minute from minute 1; with t # 0 the
\* last record carries the timestamp t
BasketHistory(n, t) ==
    [ i \in 1..n |->
        [ ts          |-> IF i = n /\ t # 0 THEN t ELSE i,
          power       |-> 1 + (i % 3),
          temperature |-> 25,
          humidity    |-> 70 ] ]

\* lengths around the empty basket and around the window's limit
ArchiveLens ==
    { 0, 1, 2, MAX_RECORDS - 2, MAX_RECORDS - 1, MAX_RECORDS,
      MAX_RECORDS + 1, MAX_RECORDS + 5 }

\* live frames handed to the archiver: none, one row, two rows
ArchiveLives ==
    { NoFrame,
      fetch_live_data(LiveItems(<<LOOKBACK_HOURS * Hour>>)),
      fetch_live_data(LiveItems(<<(LOOKBACK_HOURS - 1) * Hour,
                                  (LOOKBACK_HOURS - 1) * Hour + Slot>>)) }

InitArchive ==
    /\ pc = "archive"
    /\ now \in { [y |-> 2026, m |-> 1, d |-> 15, h |-> 0] }
    /\ resources = NoResources
    /\ hist_df = NoFrame
    /\ gap_df = NoFrame
    /\ live_df \in ArchiveLives
    /\ combined_df = NoFrame
    /\ df_ready = NoFrame
    /\ full_context = NoFrame
    /\ pred_lgbm = <<>>
    /\ pred_lstm = <<>>
    /\ pred_final = <<>>
    /\ ret = NoRet
    /\ err = ""
    /\ bill = NoBill
    /\ probe = NoProbe
    /\ disk = NoDisk
    /\ feed = <<>>
    /\ \E n \in ArchiveLens, t \in {0, LOOKBACK_HOURS * Hour} :
         basket = [ b \in BasketNames |-> BasketHistory(n, t) ]
    /\ oracle = NoOracle
    /\ other = NoOther
    /\ analysis = NoAnalysis
    /\ session = NoSession

\* one call auto_archive_live_data(live_df)
ArchiveCall ==
    /\ pc = "archive"
    /\ \E net \in NetOutcomes :
         basket' = auto_archive_live_data(live_df, basket, net)
    /\ pc' = "archived"
    /\ UNCHANGED <<now, resources, hist_df, gap_df, live_df, combined_df,
                   df_ready, full_context, pred_lgbm, pred_lstm, pred_final,
                   ret, err, bill, probe, disk, feed, oracle, other, analysis, session>>

NextArchive == ArchiveCall

SpecArchive == InitArchive /\ [][NextArchive]_vars

\* C20: a list the archiver posts to a basket has at most MAX_RECORDS
\* records, ends with the new record, and is the tail of the list it
\* appended to (the basket's history as downloaded, or the empty list when
\* the download gave none): the oldest records dropped, the order kept.
C20_SlidingWindow ==
    [][ \A b \in BasketNames :
          basket'[b] # basket[b] =>
            LET posted == basket'[b]
            IN  /\ Len(posted) <= MAX_RECORDS
                /\ posted[Len(posted)] = Payload(live_df)
                /\ \E current_history \in {basket[b], <<>>} :
                     LET appended == Append(current_history, Payload(live_df))
                         cut      == Len(appended) - Len(posted)
                     IN  /\ cut = Max2(0, Len(appended) - MAX_RECORDS)
                         /\ \A i \in 1..Len(posted) :
                              posted[i] = appended[cut + i] ]_vars

\* C20 witness: a basket of MAX_RECORDS records after a call that dropped
\* the oldest record (the histories start at minute 1)
C20_Witness ==
    /\ pc = "archived"
    /\ live_df # NoFrame
    /\ \E b \in BasketNames :
         /\ Len(basket[b]) = MAX_RECORDS
         /\ basket[b][1].ts > 1
         /\ basket[b][MAX_RECORDS] = Payload(live_df)

----------------------------------------------------------------------------
(* auto_archive_live_data called again and again while the live endpoint   *)
(* serves one latest record after another.                                 *)

\* the most records a basket holds before the runs stop
MaxArchived == 3

\* the times of the latest live record: three quarter-hours of 2026-01-01
ArchivedTimes ==
    { LOOKBACK_HOURS * Hour + k * Slot : k \in 0..2 }

\* the live frames of the runs, one per latest record
RunLives == { fetch_live_data(LiveItems(<<t>>)) : t \in ArchivedTimes }

\* no two records of a basket history with the same date and hour:minute
NoDuplicate(history) ==
    \A i, j \in 1..Len(history) :
        history[i].ts = history[j].ts => i = j

InitArchiveRuns ==
    /\ pc = "archiving"
    /\ now \in { [y |-> 2026, m |-> 1, d |-> 15, h |-> 0] }
    /\ resources = NoResources
    /\ hist_df = NoFrame
    /\ gap_df = NoFrame
    /\ live_df \in RunLives
    /\ combined_df = NoFrame
    /\ df_ready = NoFrame
    /\ full_context = NoFrame
    /\ pred_lgbm = <<>>
    /\ pred_lstm = <<>>
    /\ pred_final = <<>>
    /\ ret = NoRet
    /\ err = ""
    /\ bill = NoBill
    /\ probe = NoProbe
    /\ disk = NoDisk
    /\ feed = <<>>
    /\ basket \in { EmptyPantry,
                    Pantry(BasketItems(<<(LOOKBACK_HOURS - 1) * Hour>>)) }
    /\ oracle = NoOracle
    /\ other = NoOther
    /\ analysis = NoAnalysis
    /\ session = NoSession

\* one more call auto_archive_live_data(live_df)
ArchiveRun ==
    /\ pc = "archiving"
    /\ \A b \in BasketNames : Len(basket[b]) <= MaxArchived
    /\ \E net \in NetOutcomes :
         basket' = auto_archive_live_data(live_df, basket, net)
    /\ UNCHANGED <<pc, now, resources, hist_df, gap_df, live_df, combined_df,
                   df_ready, full_context, pred_lgbm, pred_lstm, pred_final,
                   ret, err, bill, probe, disk, feed, oracle, other, analysis, session>>

\* the next forecast call fetches the live frame anew
LiveUpdate ==
    /\ pc = "archiving"
    /\ live_df' \in RunLives
    /\ UNCHANGED <<pc, now, resources, hist_df, gap_df, combined_df,
                   df_ready, full_context, pred_lgbm, pred_lstm, pred_final,
                   ret, err, bill, probe, disk, feed, basket, oracle, other,
                   analysis, session>>

NextArchiveRuns == ArchiveRun \/ LiveUpdate

SpecArchiveRuns == InitArchiveRuns /\ [][NextArchiveRuns]_vars

\* the latest live record is among the records of its basket
AlreadyStored ==
    \E i \in 1..Len(basket[get_basket_name(DateOfTs(Payload(live_df).ts))]) :
        basket[get_basket_name(DateOfTs(Payload(live_df).ts))][i].ts
            = Payload(live_df).ts

\* C21: a call of the archiver leaves every basket without two records of
\* the same date and hour:minute when it found them so, and posts nothing
\* (the baskets stay as they are) when the latest live record is already
\* stored.
C21_NoDuplicates ==
    [][ /\ (\A b \in BasketNames : NoDuplicate(basket[b]))
            => (\A b \in BasketNames : NoDuplicate(basket'[b]))
        /\ AlreadyStored => basket' = basket ]_vars

----------------------------------------------------------------------------
(* Properties of the sequence model's invocation *)

\* the invocations of the sequence model recorded for the call's context
LstmCalls ==
    { e \in oracle : e.model = "lstm" /\ e.ctx = full_context }

\* C22: a returned forecast of H points rests on H invocations of the
\* sequence model, one per point, and the sequence window behind each point
\* ends at the row one hour before that point's timestamp.
C22_BaseStepPerPoint ==
    Returned =>
        /\ Cardinality(LstmCalls) = Len(ret.result_df)
        /\ \A i \in TargetRows(full_context) :
             full_context[MaxOf(SeqRows(full_context))].ts
                 = full_context[i].ts - Hour

\* the sequence model has been invoked in this call
LstmInvoked == pc = "lstm" \/ Returned

\* C23: the sequence window handed to the sequence model is the last
\* LOOKBACK_HOURS rows of the trimmed working history, row for row as
\* observed, ending at its last row; none of the appended future rows is in
\* it, and the direct features are those of the first future row.
C23_SequenceWindow ==
    LstmInvoked =>
        /\ SeqRows(full_context)
             = (Len(df_ready) - LOOKBACK_HOURS + 1) .. Len(df_ready)
        /\ Cardinality(SeqRows(full_context)) = LOOKBACK_HOURS
        /\ \A i \in SeqRows(full_context) : full_context[i] = df_ready[i]
        /\ SeqRows(full_context) \cap TargetRows(full_context) = {}
        /\ DirRows(full_context) = { Len(df_ready) + 1 }
        /\ \A i \in DirRows(full_context) :
             /\ i = MinOf(TargetRows(full_context))
             /\ full_context[i].ts = df_ready[Len(df_ready)].ts + Hour

\* C23 witness: a returned forecast whose working history is longer than the
\* window and ends with a live row
C23_Witness ==
    /\ Returned
    /\ Len(df_ready) > LOOKBACK_HOURS
    /\ live_df # NoFrame
    /\ df_ready[Len(df_ready)].ts = live_df[Len(live_df)].ts

----------------------------------------------------------------------------
(* The merge of the three sources on timestamps they share.  The CSV rows  *)
(* carry the loads 1.., the basket records 11.., the live items 21.., so   *)
(* that a merged row tells its source.                                     *)

\* rows of a source at the hours tss, loads counted from base
SourceRows(tss, base) ==
    [ i \in 1..Len(tss) |->
        [ ts |-> tss[i] * Hour, power |-> base + i,
          temperature |-> 25, humidity |-> 70 ] ]

\* hours of the rows of one source: none, one, two, three, a repeated one
SourceHours ==
    { <<>>, <<1>>, <<0, 1>>, <<1, 2>>, <<0, 1, 2>>, <<0, 1, 1>> }

\* hist_df as read and sorted
MergeCsvs == { SourceRows(tss, 0) : tss \in SourceHours }

\* the history pantry
MergePantries == { Pantry(SourceRows(tss, 10)) : tss \in SourceHours }

\* the items of the live endpoint
MergeFeeds ==
    { [ i \in 1..Len(tss) |-> [ ts |-> tss[i] * Hour, power |-> 20 + i ] ] :
        tss \in SourceHours }

InitMerge ==
    /\ pc = "fetched"
    /\ now \in { [y |-> 2026, m |-> 1, d |-> 15, h |-> 0] }
    /\ resources = NoResources
    /\ hist_df \in MergeCsvs
    /\ basket \in MergePantries
    /\ feed \in MergeFeeds
    /\ gap_df = fetch_recent_history_gap(now, basket)
    /\ live_df = fetch_live_data(feed)
    /\ combined_df = NoFrame
    /\ df_ready = NoFrame
    /\ full_context = NoFrame
    /\ pred_lgbm = <<>>
    /\ pred_lstm = <<>>
    /\ pred_final = <<>>
    /\ ret = NoRet
    /\ err = ""
    /\ bill = NoBill
    /\ probe = NoProbe
    /\ disk = [ bundle |-> NoResources, csv |-> hist_df ]
    /\ oracle = NoOracle
    /\ other = NoOther
    /\ analysis = NoAnalysis
    /\ session = NoSession

NextMerge == Merge

SpecMerge == InitMerge /\ [][NextMerge]_vars

\* the timestamps of a frame
Stamps(df) == { df[i].ts : i \in 1..Len(df) }

\* the last row of a frame with timestamp t
LastAt(df, t) ==
    df[MaxOf({ i \in 1..Len(df) : df[i].ts = t })]

\* C24: the merged history is sorted by timestamp with no timestamp twice,
\* holds exactly the timestamps of the three sources, and its row for a
\* timestamp is the live row when the live frame has one, else the gap row
\* when the gap frame has one, else the CSV row.
C24_MergePrecedence ==
    pc = "merged" =>
        /\ \A i \in 1..(Len(combined_df) - 1) :
             combined_df[i].ts < combined_df[i + 1].ts
        /\ Stamps(combined_df)
             = Stamps(hist_df) \cup Stamps(gap_df) \cup Stamps(live_df)
        /\ \A i \in 1..Len(combined_df) :
             LET t == combined_df[i].ts
             IN  combined_df[i] =
                   IF t \in Stamps(live_df) THEN LastAt(live_df, t)
                   ELSE IF t \in Stamps(gap_df) THEN LastAt(gap_df, t)
                   ELSE LastAt(hist_df, t)

\* C24 witness: a merge in which one timestamp came from all three sources
\* and another from the CSV and the gap baskets only
C24_Witness ==
    /\ pc = "merged"
    /\ \E t \in Stamps(hist_df) : t \in Stamps(gap_df) /\ t \in Stamps(live_df)
    /\ \E t \in Stamps(hist_df) : t \in Stamps(gap_df) /\ t \notin Stamps(live_df)

----------------------------------------------------------------------------
(* Properties of the archival inside the forecast call *)

\* C25: within a forecast call a basket changes only in the step that
\* returns a computed forecast, and only when the live frame is not empty;
\* once both model outputs are there and fit the future rows, the call
\* returns the forecast computed from them whatever the archiver's requests
\* do; a call that returns no forecast leaves the baskets as they were.
C25_ArchiveAfterForecast ==
    [][ /\ basket' # basket =>
             /\ live_df # NoFrame
             /\ pc = "lstm"
             /\ pc' = "done"
             /\ ~ret'.none
        /\ (pc = "lstm" /\ Len(pred_lstm) = FUTURE_ROWS) =>
             /\ pc' = "done"
             /\ ~ret'.none
             /\ ret'.result_df
                  = ResultFrame(full_context,
                                WeightedSum(pred_lgbm, pred_lstm, resources),
                                pred_lgbm, pred_lstm)
        /\ (pc' = "done" /\ ret'.none) => basket' = basket ]_vars

\* C25 witness: a forecast returned although the archival of the latest
\* live record did not go through (its basket does not hold the record)
C25_Witness ==
    /\ Returned
    /\ live_df # NoFrame
    /\ \A i \in 1..Len(basket[get_basket_name(DateOfTs(Payload(live_df).ts))]) :
         basket[get_basket_name(DateOfTs(Payload(live_df).ts))][i].ts
             # Payload(live_df).ts

----------------------------------------------------------------------------
(* A browser session.  Streamlit runs the script once per interaction, one *)
(* run at a time in a session; st.rerun and st.stop end the current run.   *)
(* `session` holds st.session_state, the position of the current run, the  *)
(* BackgroundWorker and the threads started on it.  None is 0 and the      *)
(* forecast and history returned by the engine in thread t are both named  *)
(* t.  The call of the engine is reduced to what it returns.               *)
(*                                                                         *)
(* The tutorial page is taken as the entry of a session that is not ready: *)
(* its runs call show_tutorial_page.  Once the loading page has sent the   *)
(* session to the home page, the runs are those of app.main.               *)

None == 0

\* the most threads a session starts
MaxThreads == 2

\* wait_cycles beyond which show_fullscreen_loading gives up
WaitLimit == 600

\* the progress the wait loop stops counting at
ProgressCap == 90

\* parameters of model_service.load_resources_and_predict
EngineParams == 0

\* arguments of the call in initialize_system and in run_task
InitializeArgs == 1

RunTaskArgs == 0

\* files check_system_integrity asks for
RequiredFiles ==
    { "final_training_data_with_humidity.csv", "hybrid_residual.pkl",
      "lgbm_residual.pkl", "lstm_hybrid.keras" }

\* BackgroundWorker.__init__
BackgroundWorker ==
    [ result |-> None, history |-> None, is_done |-> FALSE, is_running |-> FALSE ]

NoWorker == [ result |-> None, history |-> None, is_done |-> FALSE,
              is_running |-> FALSE, absent |-> TRUE ]

\* st.session_state after the initialisation at the top of app.py, on page
\* `page`, in a directory that lacks the files `missing` and whose CSV has
\* rows or not
FreshSession(page, missing, csv_rows) ==
    [ pc                |-> "run",
      app_ready         |-> FALSE,
      prediction_result |-> None,
      current_data      |-> None,
      page              |-> page,
      tutorial_step     |-> "1",
      tutorial_finished |-> FALSE,
      bg_worker         |-> NoWorker,
      threads           |-> <<>>,
      progress          |-> 0,
      wait_cycles       |-> 0,
      shown             |-> 0,
      stop              |-> "",
      missing           |-> missing,
      csv_rows          |-> csv_rows ]

\* init_worker
init_worker(s) ==
    IF s.bg_worker = NoWorker
    THEN [ s EXCEPT !.bg_worker = BackgroundWorker ]
    ELSE s

\* start_background_thread: a thread is started, run_task not yet entered
start_background_thread(s) ==
    LET s1     == init_worker(s)
        worker == s1.bg_worker
    IN  IF /\ ~worker.is_done
           /\ ~worker.is_running
           /\ ~s1.app_ready
           /\ Len(s1.threads) < MaxThreads
        THEN [ s1 EXCEPT !.threads = Append(@, [ pc |-> "started", got |-> None ]) ]
        ELSE s1

\* everything but the session
engine ==
    <<pc, now, resources, hist_df, gap_df, live_df, combined_df, df_ready,
      full_context, pred_lgbm, pred_lstm, pred_final, ret, err, bill, probe,
      disk, feed, basket, oracle, other, analysis>>

\* the buttons of the tutorial's steps and the step each one leads to
Buttons(tutorial_step) ==
    CASE tutorial_step = "1" -> { "2" }
      [] tutorial_step = "2" -> { "1", "3" }
      [] tutorial_step = "3" -> { "2", "4" }
      [] tutorial_step = "4" -> { "3", "loading" }
      [] OTHER -> {}

\* a run of show_tutorial_page with no button pressed: the worker is made
\* and started, then the step's page is drawn or the loading page entered
RunTutorial ==
    /\ session.pc = "run"
    /\ session.page = "tutorial"
    /\ session' = [ start_background_thread(session) EXCEPT
                      !.pc = IF session.tutorial_step = "loading"
                             THEN "loading" ELSE "idle" ]
    /\ UNCHANGED engine

\* a run of show_tutorial_page with a button pressed: the worker is made and
\* started, the button's handler sets the step and asks for a rerun
Click ==
    /\ session.pc = "idle"
    /\ session.page = "tutorial"
    /\ \E to \in Buttons(session.tutorial_step) :
         session' = [ start_background_thread(session) EXCEPT
                        !.tutorial_step = to,
                        !.pc = "run" ]
    /\ UNCHANGED engine

\* show_fullscreen_loading up to the wait loop: the bar at 0, the thread
\* started if the worker is neither running nor done
LoadingStart ==
    /\ session.pc = "loading"
    /\ LET s1     == init_worker(session)
           worker == s1.bg_worker
           s2     == IF ~worker.is_running /\ ~worker.is_done
                     THEN start_background_thread(s1) ELSE s1
       IN  session' = [ s2 EXCEPT !.progress = 0, !.wait_cycles = 0,
                                  !.shown = 0, !.pc = "wait" ]
    /\ UNCHANGED engine

\* WaitCycle without the test of wait_cycles
WaitCycle_NoTimeout ==
    /\ session.pc = "wait"
    /\ ~session.bg_worker.is_done
    /\ LET progress == IF session.progress < ProgressCap
                       THEN session.progress + 1 ELSE session.progress
       IN  session' = [ session EXCEPT !.progress = progress,
                                       !.wait_cycles = @ + 1,
                                       !.shown = progress ]
    /\ UNCHANGED engine

\* one turn of the wait loop: is_done read as false, the bar moved, the
\* timeout tested
WaitCycle ==
    /\ session.pc = "wait"
    /\ ~session.bg_worker.is_done
    /\ LET progress    == IF session.progress < ProgressCap
                          THEN session.progress + 1 ELSE session.progress
           wait_cycles == session.wait_cycles + 1
       IN  session' = [ session EXCEPT
                          !.progress = progress,
                          !.wait_cycles = wait_cycles,
                          !.shown = progress,
                          !.pc = IF wait_cycles > WaitLimit THEN "stopped" ELSE "wait",
                          !.stop = IF wait_cycles > WaitLimit THEN "timeout" ELSE @ ]
    /\ UNCHANGED engine

\* the loop left: is_done read as true, the bar set to 100 (the loop's
\* counters are not read again)
LoadingDone ==
    /\ session.pc = "wait"
    /\ session.bg_worker.is_done
    /\ session' = [ session EXCEPT !.shown = 100, !.progress = 0,
                                   !.wait_cycles = 0, !.pc = "check" ]
    /\ UNCHANGED engine

\* if worker.result is not None
CheckResult ==
    /\ session.pc = "check"
    /\ session' = [ session EXCEPT
                      !.pc = IF session.bg_worker.result # None
                             THEN "store" ELSE "leave" ]
    /\ UNCHANGED engine

\* prediction_result = worker.result
StoreResult ==
    /\ session.pc = "store"
    /\ session' = [ session EXCEPT
                      !.prediction_result = session.bg_worker.result,
                      !.pc = "store_history" ]
    /\ UNCHANGED engine

\* current_data = worker.history; app_ready = True
StoreHistory ==
    /\ session.pc = "store_history"
    /\ session' = [ session EXCEPT
                      !.current_data = session.bg_worker.history,
                      !.app_ready = TRUE,
                      !.pc = "leave" ]
    /\ UNCHANGED engine

\* page = "home"; tutorial_finished = True; st.rerun()
GoHome ==
    /\ session.pc = "leave"
    /\ session' = [ session EXCEPT !.page = "home",
                                   !.tutorial_finished = TRUE,
                                   !.pc = "run" ]
    /\ UNCHANGED engine

\* the session after thread t moved to pc with the worker's fields set
Moved(t, to, got, worker) ==
    [ session EXCEPT !.threads[t] = [ pc |-> to, got |-> got ],
                     !.bg_worker = worker ]

\* run_task, first statement: is_running = True
TaskBegin ==
    /\ \E t \in 1..Len(session.threads) :
         /\ session.threads[t].pc = "started"
         /\ session' = Moved(t, "running", None,
                             [ session.bg_worker EXCEPT !.is_running = TRUE ])
    /\ UNCHANGED engine

\* res_df, hist_df = load_resources_and_predict(); result = res_df.  The
\* engine returns a forecast and a history, or (None, None); a call with
\* the wrong number of arguments raises into the except clause.
TaskResult ==
    /\ \E t \in 1..Len(session.threads) :
         /\ session.threads[t].pc = "running"
         /\ IF RunTaskArgs # EngineParams
            THEN session' = Moved(t, "done", None,
                                  [ session.bg_worker EXCEPT !.is_done = TRUE ])
            ELSE \E got \in { None, t } :
                   session' = Moved(t, "result", got,
                                    [ session.bg_worker EXCEPT !.result = got ])
    /\ UNCHANGED engine

\* history = hist_df
TaskHistory ==
    /\ \E t \in 1..Len(session.threads) :
         /\ session.threads[t].pc = "result"
         /\ session' = Moved(t, "history", session.threads[t].got,
                             [ session.bg_worker EXCEPT
                                 !.history = session.threads[t].got ])
    /\ UNCHANGED engine

\* is_done = True
TaskDone ==
    /\ \E t \in 1..Len(session.threads) :
         /\ session.threads[t].pc = "history"
         /\ session' = Moved(t, "done", session.threads[t].got,
                             [ session.bg_worker EXCEPT !.is_done = TRUE ])
    /\ UNCHANGED engine

\* finally: is_running = False
TaskFinally ==
    /\ \E t \in 1..Len(session.threads) :
         /\ session.threads[t].pc = "done"
         /\ session' = Moved(t, "finished", session.threads[t].got,
                             [ session.bg_worker EXCEPT !.is_running = FALSE ])
    /\ UNCHANGED engine

\* st.stop() after an error message
Stopped(s, why) == [ s EXCEPT !.pc = "stopped", !.stop = why ]

\* what the engine may return to initialize_system: (None, None) or a
\* forecast and a history
MainReturns == { None, MaxThreads + 1 }

\* initialize_system, when the engine would return pred: True for a ready
\* session; else the files are checked, the history loaded, the engine
\* called, and the run ends in st.stop() or, the forecast stored, in
\* st.rerun()
initialize_system(s, pred) ==
    IF s.app_ready THEN [ s EXCEPT !.pc = "route" ]
    ELSE IF s.missing # {} THEN Stopped(s, "missing")
    ELSE IF ~s.csv_rows THEN Stopped(s, "no_history")
    ELSE IF InitializeArgs # EngineParams THEN Stopped(s, "unexpected")
    ELSE IF pred = None THEN Stopped(s, "predict_failed")
    ELSE [ s EXCEPT !.prediction_result = pred,
                    !.current_data = pred,
                    !.app_ready = TRUE,
                    !.pc = "run" ]

\* a run of main with no button pressed: initialize_system, then the page
Main ==
    /\ session.pc = "run"
    /\ session.page # "tutorial"
    /\ \E pred \in MainReturns :
         LET s1 == initialize_system(session, pred)
         IN  session' = IF s1.pc = "route"
                        THEN [ s1 EXCEPT !.pc = "rendered" ]
                        ELSE s1
    /\ UNCHANGED engine

\* a run of main with a button of the sidebar pressed: a page button sets
\* the page, the refresh button resets app_ready; both end in st.rerun()
SidebarClick ==
    /\ session.pc \in { "rendered", "stopped" }
    /\ session.page # "tutorial"
    /\ \E button \in { "home", "dashboard", "analysis", "refresh" } :
         session' = IF button = "refresh"
                    THEN [ session EXCEPT !.app_ready = FALSE, !.stop = "",
                                          !.pc = "run" ]
                    ELSE [ session EXCEPT !.page = button, !.stop = "",
                                          !.pc = "run" ]
    /\ UNCHANGED engine

InitTutorial ==
    /\ pc = "session"
    /\ now \in { [y |-> 2026, m |-> 1, d |-> 15, h |-> 0] }
    /\ resources = NoResources
    /\ hist_df = NoFrame
    /\ gap_df = NoFrame
    /\ live_df = NoFrame
    /\ combined_df = NoFrame
    /\ df_ready = NoFrame
    /\ full_context = NoFrame
    /\ pred_lgbm = <<>>
    /\ pred_lstm = <<>>
    /\ pred_final = <<>>
    /\ ret = NoRet
    /\ err = ""
    /\ bill = NoBill
    /\ probe = NoProbe
    /\ disk = NoDisk
    /\ feed = <<>>
    /\ basket = EmptyPantry
    /\ oracle = NoOracle
    /\ other = NoOther
    /\ analysis = NoAnalysis
    /\ session = FreshSession("tutorial", {}, TRUE)

NextTutorial ==
    \/ RunTutorial
    \/ Click
    \/ LoadingStart
    \/ WaitCycle
    \/ LoadingDone
    \/ CheckResult
    \/ StoreResult
    \/ StoreHistory
    \/ GoHome
    \/ TaskBegin
    \/ TaskResult
    \/ TaskHistory
    \/ TaskDone
    \/ TaskFinally
    \/ Main
    \/ SidebarClick

SpecTutorial == InitTutorial /\ [][NextTutorial]_vars

----------------------------------------------------------------------------
(* Properties of the worker and of the loading page *)

\* the threads that have entered run_task
Executing ==
    { t \in 1..Len(session.threads) : session.threads[t].pc # "started" }

Finished ==
    { t \in 1..Len(session.threads) :
        session.threads[t].pc \in { "done", "finished" } }

C28_WaitLoop ==
    /\ [](session.pc = "wait" =>
            /\ session.wait_cycles <= WaitLimit
            /\ session.shown <= ProgressCap)
    /\ [](session.shown = 100 => session.bg_worker.is_done)
    /\ [](session.stop = "timeout" =>
            session.pc = "stopped" /\ session.wait_cycles = WaitLimit + 1)
    /\ [][ session.pc = "wait" =>
             \/ /\ session'.pc = "wait"
                /\ session'.wait_cycles = session.wait_cycles
                /\ session'.shown = session.shown
             \/ /\ session'.pc = "wait"
                /\ ~session.bg_worker.is_done
                /\ session'.wait_cycles = session.wait_cycles + 1
                /\ session'.shown >= session.shown
             \/ /\ session'.pc = "stopped"
                /\ ~session.bg_worker.is_done
                /\ session'.stop = "timeout"
                /\ session'.shown >= session.shown
             \/ /\ session'.pc = "check"
                /\ session.bg_worker.is_done
                /\ session'.shown = 100 ]_vars

\* C28 witness: the loop given up after WaitLimit + 1 turns, the bar at the
\* cap, the worker still running
C28_Witness ==
    /\ session.pc = "stopped"
    /\ session.stop = "timeout"
    /\ session.wait_cycles = WaitLimit + 1
    /\ session.shown = ProgressCap
    /\ session.bg_worker.is_running
    /\ ~session.bg_worker.is_done

----------------------------------------------------------------------------
(* A fresh session of app.py: every run is a run of main.  The directory   *)
(* may lack required files and the CSV may have no rows.  A rerun that has *)
(* been asked for is run; the user may or may not press a button.          *)

InitMain ==
    /\ pc = "session"
    /\ now \in { [y |-> 2026, m |-> 1, d |-> 15, h |-> 0] }
    /\ resources = NoResources
    /\ hist_df = NoFrame
    /\ gap_df = NoFrame
    /\ live_df = NoFrame
    /\ combined_df = NoFrame
    /\ df_ready = NoFrame
    /\ full_context = NoFrame
    /\ pred_lgbm = <<>>
    /\ pred_lstm = <<>>
    /\ pred_final = <<>>
    /\ ret = NoRet
    /\ err = ""
    /\ bill = NoBill
    /\ probe = NoProbe
    /\ disk = NoDisk
    /\ feed = <<>>
    /\ basket = EmptyPantry
    /\ oracle = NoOracle
    /\ other = NoOther
    /\ analysis = NoAnalysis
    /\ session \in { FreshSession("home", missing, csv_rows) :
                       missing \in SUBSET RequiredFiles, csv_rows \in BOOLEAN }

NextMain == Main \/ SidebarClick

SpecMain == InitMain /\ [][NextMain]_vars /\ WF_vars(Main)

\* C30: a fresh session in which the required files exist and the CSV has
\* rows eventually is ready, its page rendered.
C30_EventuallyReady ==
    (session.missing = {} /\ session.csv_rows)
        => <>(session.app_ready /\ session.pc = "rendered")

====
